---------------------------- MODULE Spec2Model ----------------------------
(***************************************************************************)
(* A model of helpers.py: the filename sanitizer clean_filename, the       *)
(* recursive generator generate_lower_order_interactions, the covariate    *)
(* display-name mapper generate_covariate_latexdict, and the two export    *)
(* routines savereg and savefig.                                           *)
(*                                                                         *)
(* A Python str is a sequence of one-character strings; a character that   *)
(* is not ASCII is written by its code point ("U+00E9").  A dict is the    *)
(* sequence of its items in insertion order.                               *)
(***************************************************************************)
EXTENDS Integers, Sequences, FiniteSets, TLC

VARIABLES
    pc,                   \* position of the running call
    calls,                \* calls made so far on the same objects
    filename,             \* the filename argument
    result,               \* what the call returned or raised
    vars_in_interaction,  \* argument of generate_lower_order_interactions
    stack,                \* its call stack, innermost frame last
    latexdict,            \* the display-name dict, items in insertion order
    cov_names,            \* the list of covariate names
    stargazer,            \* the table object savereg works on
    args,                 \* savereg's adjustwidth and debug
    locals,               \* local variables of the running export call
    ax,                   \* the axes object savefig works on
    log,                  \* calls made on external objects, in order
    files                 \* files written, in order

vars == <<pc, calls, filename, result, vars_in_interaction, stack, latexdict,
          cov_names, stargazer, args, locals, ax, log, files>>

\* Bounds of the model.
MaxLen == 3
MaxVars == 3
MaxCov == 4
MaxModels == 2
MaxCalls == 2

\* The value of a variable the specification at hand does not use.
Unused == <<"unused">>

---------------------------------------------------------------------------
\* Sequences and strings

SeqsUpTo(S, n) == UNION {[1..k -> S] : k \in 0..n}

Range(s) == {s[i] : i \in 1..Len(s)}

RECURSIVE Flatten(_)
Flatten(ss) == IF ss = <<>> THEN <<>> ELSE Head(ss) \o Flatten(Tail(ss))

\* sep.join(parts)
RECURSIVE Join(_, _)
Join(sep, parts) ==
    IF parts = <<>> THEN <<>>
    ELSE IF Len(parts) = 1 THEN parts[1]
    ELSE parts[1] \o sep \o Join(sep, Tail(parts))

\* s.split(sep) for a one-character separator: the pieces between
\* the separators, empty pieces included.
RECURSIVE SplitFrom(_, _, _)
SplitFrom(s, sep, piece) ==
    IF s = <<>> THEN <<piece>>
    ELSE IF Head(s) = sep THEN <<piece>> \o SplitFrom(Tail(s), sep, <<>>)
    ELSE SplitFrom(Tail(s), sep, Append(piece, Head(s)))

Split(s, sep) == SplitFrom(s, sep, <<>>)

Count(s, x) == Cardinality({i \in 1..Len(s) : s[i] = x})

IsPrefix(p, s) == Len(p) <= Len(s) /\ SubSeq(s, 1, Len(p)) = p

---------------------------------------------------------------------------
\* clean_filename

AsciiUpper == {"A", "B", "C", "D", "E", "F", "G", "H", "I", "J", "K", "L", "M",
               "N", "O", "P", "Q", "R", "S", "T", "U", "V", "W", "X", "Y", "Z"}
AsciiLower == {"a", "b", "c", "d", "e", "f", "g", "h", "i", "j", "k", "l", "m",
               "n", "o", "p", "q", "r", "s", "t", "u", "v", "w", "x", "y", "z"}
AsciiDigit == {"0", "1", "2", "3", "4", "5", "6", "7", "8", "9"}
AsciiOther == {" ", "/", "!", "_", ".", "-", ":"}
Ascii == AsciiUpper \cup AsciiLower \cup AsciiDigit \cup AsciiOther

\* Characters outside ASCII: U+00C9 and U+00E9 are the letter E with acute
\* in upper and lower case, U+0663 is the Arabic-Indic digit three, U+20AC
\* is the euro sign.  str.isalnum() is True of the first three.
UnicodeAlnum == {"U+00C9", "U+00E9", "U+0663"}
UnicodeOther == {"U+20AC"}

\* str.lower() on one character.
LowerChar(c) ==
    CASE c = "A" -> "a" [] c = "B" -> "b" [] c = "C" -> "c" [] c = "D" -> "d"
      [] c = "E" -> "e" [] c = "F" -> "f" [] c = "G" -> "g" [] c = "H" -> "h"
      [] c = "I" -> "i" [] c = "J" -> "j" [] c = "K" -> "k" [] c = "L" -> "l"
      [] c = "M" -> "m" [] c = "N" -> "n" [] c = "O" -> "o" [] c = "P" -> "p"
      [] c = "Q" -> "q" [] c = "R" -> "r" [] c = "S" -> "s" [] c = "T" -> "t"
      [] c = "U" -> "u" [] c = "V" -> "v" [] c = "W" -> "w" [] c = "X" -> "x"
      [] c = "Y" -> "y" [] c = "Z" -> "z" [] c = "U+00C9" -> "U+00E9"
      [] OTHER -> c

Lower(s) == [i \in 1..Len(s) |-> LowerChar(s[i])]

\* s.replace(old, new) for a one-character old.
Replace(s, old, new) ==
    Flatten([i \in 1..Len(s) |-> IF s[i] = old THEN new ELSE <<s[i]>>])

\* \w of a str pattern: the underscore and every alphanumeric character,
\* ASCII or not.
IsWordChar(c) ==
    c \in AsciiUpper \cup AsciiLower \cup AsciiDigit \cup {"_"} \cup UnicodeAlnum

\* re.sub(r'\W+', '', s)
RECURSIVE StripNonWord(_)
StripNonWord(s) ==
    IF s = <<>> THEN <<>>
    ELSE IF IsWordChar(Head(s)) THEN <<Head(s)>> \o StripNonWord(Tail(s))
    ELSE StripNonWord(Tail(s))

\* A sanitizer that replaces each pair of underscores once instead of each run.
RECURSIVE CollapsePairs(_)
CollapsePairs(s) ==
    IF Len(s) < 2 THEN s
    ELSE IF s[1] = "_" /\ s[2] = "_" THEN <<"_">> \o CollapsePairs(Tail(Tail(s)))
    ELSE <<s[1]>> \o CollapsePairs(Tail(s))

\* re.sub('_+', '_', s)
RECURSIVE CollapseUnderscores(_)
CollapseUnderscores(s) ==
    IF Len(s) < 2 THEN s
    ELSE IF s[1] = "_" /\ s[2] = "_" THEN CollapseUnderscores(Tail(s))
    ELSE <<s[1]>> \o CollapseUnderscores(Tail(s))

clean_filename(name) ==
    LET s1 == Replace(Lower(name), " ", <<"_">>)
        s2 == Replace(s1, "/", <<"_", "o", "v", "e", "r", "_">>)
        s3 == StripNonWord(s2)
    IN  CollapseUnderscores(s3)

\* The characters the sanitizer's inputs are drawn from.
CleanAlphabet == {"A", "b", "7", " ", "/", "!", "_", "U+00C9", "U+00E9",
                  "U+0663", "U+20AC"}

InitClean ==
    /\ filename \in SeqsUpTo(CleanAlphabet, MaxLen)
    /\ pc = "start"
    /\ calls = 0
    /\ result = Unused
    /\ vars_in_interaction = Unused /\ stack = Unused
    /\ latexdict = Unused /\ cov_names = Unused
    /\ stargazer = Unused /\ args = Unused /\ locals = Unused /\ ax = Unused
    /\ log = Unused /\ files = Unused

CleanFilename ==
    /\ pc = "start"
    /\ result' = clean_filename(filename)
    /\ pc' = "done"
    /\ UNCHANGED <<calls, filename, vars_in_interaction, stack, latexdict,
                   cov_names, stargazer, args, locals, ax, log, files>>

NextClean == CleanFilename

SpecClean == InitClean /\ [][NextClean]_vars


\* Claims about clean_filename

PlainChars == AsciiLower \cup AsciiDigit \cup {"_"}

NoDoubleUnderscore(s) ==
    \A i \in 1..(Len(s) - 1) : ~(s[i] = "_" /\ s[i + 1] = "_")

\* C6 as stated: whatever the input, the sanitized name has no character
\* outside [a-z0-9_] and no two consecutive underscores.
C6_Original ==
    pc = "done" =>
        /\ Range(result) \subseteq PlainChars
        /\ NoDoubleUnderscore(result)

\* C6 as amended: the sanitized name has no two consecutive underscores, no
\* upper-case ASCII letter and no character that is not a word character (a
\* letter or digit, ASCII or not, or the underscore); when the input is all
\* ASCII it has no character outside [a-z0-9_].
C6_Amended ==
    pc = "done" =>
        /\ NoDoubleUnderscore(result)
        /\ \A c \in Range(result) : IsWordChar(c) /\ c \notin AsciiUpper
        /\ Range(filename) \subseteq Ascii => Range(result) \subseteq PlainChars

\* A sanitized all-ASCII name that had an upper-case letter, a space and a
\* path separator in it.
C6_Witness ==
    /\ pc = "done"
    /\ {"A", " ", "/"} \subseteq Range(filename)
    /\ result # <<>>

---------------------------------------------------------------------------
\* generate_lower_order_interactions

\* The variable names of the model.
VarA == <<"A">>
VarB == <<"B">>
VarC == <<"C">>
VarPool == {VarA, VarB, VarC}

Colon == <<":">>

\* An omission that counts the position from the end of the list.
OmitFromEnd(v, i) == SubSeq(v, 1, Len(v) - 1 - i) \o SubSeq(v, Len(v) - i + 1, Len(v))

\* vars_in_interaction[:i] + vars_in_interaction[(i+1):], i counted from 0.
Omit(v, i) == SubSeq(v, 1, i) \o SubSeq(v, i + 2, Len(v))

\* "if lower_order:", a list is true when it is not empty.
AppendCond(lower_order) == lower_order # <<>>

\* A generator that recurses only while more than two variables are left.
RecurseCondMoreThanTwo(lower_order) == Len(lower_order) > 2

\* "if len(lower_order) > 1:"
RecurseCond(lower_order) == Len(lower_order) > 1

\* The function, iteration i of its loop onwards, lower_order_interactions
\* being acc so far.
RECURSIVE LowerOrderLoop(_, _, _)
LowerOrderLoop(v, i, acc) ==
    IF i >= Len(v) THEN acc
    ELSE LET lower_order == Omit(v, i)
             acc1 == IF AppendCond(lower_order)
                     THEN Append(acc, Join(Colon, lower_order))
                     ELSE acc
             acc2 == IF RecurseCond(lower_order)
                     THEN acc1 \o LowerOrderLoop(lower_order, 0, <<>>)
                     ELSE acc1
         IN  LowerOrderLoop(v, i + 1, acc2)

generate_lower_order_interactions(v) == LowerOrderLoop(v, 0, <<>>)

\* The same function run step by step.  A frame of the call stack holds the
\* call's argument v, its loop index i and its list out.
Frame(v) == [v |-> v, i |-> 0, out |-> <<>>]

Top == stack[Len(stack)]

InitGen ==
    /\ vars_in_interaction \in SeqsUpTo(VarPool, MaxVars)
    /\ stack = <<Frame(vars_in_interaction)>>
    /\ pc = "loop"
    /\ calls = 0
    /\ result = Unused
    /\ filename = Unused
    /\ latexdict = Unused /\ cov_names = Unused
    /\ stargazer = Unused /\ args = Unused /\ locals = Unused /\ ax = Unused
    /\ log = Unused /\ files = Unused

GenUnchanged ==
    UNCHANGED <<calls, filename, vars_in_interaction, latexdict, cov_names,
                stargazer, args, locals, ax, log, files>>

\* The list after "if lower_order: ... append".
AppendedOut(frame) ==
    LET lower_order == Omit(frame.v, frame.i)
    IN  IF AppendCond(lower_order)
        THEN Append(frame.out, Join(Colon, lower_order))
        ELSE frame.out

\* One iteration of the loop that does not recurse.
GenIterate ==
    /\ pc = "loop"
    /\ Top.i < Len(Top.v)
    /\ ~RecurseCond(Omit(Top.v, Top.i))
    /\ stack' = [stack EXCEPT ![Len(stack)] =
                    [Top EXCEPT !.out = AppendedOut(Top), !.i = Top.i + 1]]
    /\ UNCHANGED <<pc, result>>
    /\ GenUnchanged

\* One iteration up to the recursive call: the callee's frame is pushed.
GenRecurse ==
    /\ pc = "loop"
    /\ Top.i < Len(Top.v)
    /\ RecurseCond(Omit(Top.v, Top.i))
    /\ stack' = Append([stack EXCEPT ![Len(stack)] =
                           [Top EXCEPT !.out = AppendedOut(Top)]],
                       Frame(Omit(Top.v, Top.i)))
    /\ UNCHANGED <<pc, result>>
    /\ GenUnchanged

\* A recursive call returns: the caller extends its list by the returned
\* one and goes on to its next iteration.
GenReturn ==
    /\ pc = "loop"
    /\ Len(stack) > 1
    /\ Top.i >= Len(Top.v)
    /\ LET caller == stack[Len(stack) - 1]
       IN  stack' = [SubSeq(stack, 1, Len(stack) - 1) EXCEPT ![Len(stack) - 1] =
                        [caller EXCEPT !.out = caller.out \o Top.out,
                                       !.i = caller.i + 1]]
    /\ UNCHANGED <<pc, result>>
    /\ GenUnchanged

\* The outermost call returns.
GenFinish ==
    /\ pc = "loop"
    /\ Len(stack) = 1
    /\ Top.i >= Len(Top.v)
    /\ result' = Top.out
    /\ pc' = "done"
    /\ UNCHANGED stack
    /\ GenUnchanged

NextGen == GenIterate \/ GenRecurse \/ GenReturn \/ GenFinish

SpecGen == InitGen /\ [][NextGen]_vars

\* The interpreter runs a call that can take a step.
SpecGenFair == SpecGen /\ WF_vars(NextGen)

\* The stepwise run returns what the function returns.
GenAgrees ==
    pc = "done" => result = generate_lower_order_interactions(vars_in_interaction)

\* Claims about generate_lower_order_interactions

Term(v) == Join(Colon, v)

C9_Expected(v) ==
    Flatten([k \in 1..Len(v) |->
                <<Term(Omit(v, k - 1))>>
                    \o generate_lower_order_interactions(Omit(v, k - 1))])

---------------------------------------------------------------------------
\* generate_covariate_latexdict

\* dict operations; a dict is the sequence of its items, in insertion order.
Item(k, v) == [key |-> k, value |-> v]

Keys(d) == [i \in 1..Len(d) |-> d[i].key]

\* list.index(x), counted from 0.
Index(s, x) == (CHOOSE i \in 1..Len(s) : s[i] = x /\ \A j \in 1..(i - 1) : s[j] # x) - 1

\* d.get(k, default)
Get(d, k, default) ==
    IF k \in Range(Keys(d)) THEN d[Index(Keys(d), k) + 1].value ELSE default

\* d[k] = v
DictSet(d, k, v) ==
    IF k \in Range(Keys(d))
    THEN [d EXCEPT ![Index(Keys(d), k) + 1] = Item(k, v)]
    ELSE Append(d, Item(k, v))

\* A sort key is an integer or np.inf.
Finite(n) == [inf |-> FALSE, n |-> n]
Inf == [inf |-> TRUE, n |-> 0]

KeyLess(a, b) ==
    IF a.inf THEN FALSE
    ELSE IF b.inf THEN TRUE
    ELSE a.n < b.n

\* A sort key that follows the dict's order instead of reversing it.
OrderKeyForward(d, var) ==
    IF var \in Range(Keys(d)) THEN Finite(Index(Keys(d), var)) ELSE Inf

\* lambda var: -list(latexdict.keys()).index(var)
\*             if var in latexdict.keys() else np.inf
OrderKey(d, var) ==
    IF var \in Range(Keys(d)) THEN Finite(-Index(Keys(d), var)) ELSE Inf

\* sorted(), which is stable: an element goes after those already placed
\* that are not greater than it.
RECURSIVE InsertByKey(_, _, _)
InsertByKey(x, s, d) ==
    IF s = <<>> THEN <<x>>
    ELSE IF KeyLess(OrderKey(d, x), OrderKey(d, Head(s))) THEN <<x>> \o s
    ELSE <<Head(s)>> \o InsertByKey(x, Tail(s), d)

RECURSIVE SortedFrom(_, _, _)
SortedFrom(v, d, placed) ==
    IF v = <<>> THEN placed
    ELSE SortedFrom(Tail(v), d, InsertByKey(Head(v), placed, d))

correct_order_vars(v, d) == SortedFrom(v, d, <<>>)

\* set(lower_order_interactions) - set(cov_names)
MissingInteractions(v, names) ==
    Range(generate_lower_order_interactions(v)) \ Range(names)

AssertionError(check, name) ==
    [raised |-> TRUE, exception |-> "AssertionError", check |-> check,
     cov_name |-> name]

Returned(value) == [raised |-> FALSE, value |-> value]

Passed == [raised |-> FALSE]

\* A check of one covariate that asserts the order before the lower-order
\* interactions.
CheckCovariateOrderFirst(d, names, cov_name) ==
    LET v == Split(cov_name, ":")
    IN  IF Len(v) > 1
        THEN IF v # correct_order_vars(v, d)
             THEN AssertionError("order", cov_name)
             ELSE IF MissingInteractions(v, names) # {}
             THEN AssertionError("missing", cov_name)
             ELSE Passed
        ELSE Passed

\* The two assertions of one iteration of the loop over cov_names.
CheckCovariate(d, names, cov_name) ==
    LET v == Split(cov_name, ":")
    IN  IF Len(v) > 1
        THEN IF MissingInteractions(v, names) # {}
             THEN AssertionError("missing", cov_name)
             ELSE IF v # correct_order_vars(v, d)
             THEN AssertionError("order", cov_name)
             ELSE Passed
        ELSE Passed

\* ' $\\times$ '
Times == <<" ", "$", "\\", "t", "i", "m", "e", "s", "$", " ">>

\* The display string of one covariate.
clean_cov_name(d, cov_name) ==
    LET v == Split(cov_name, ":")
    IN  Join(Times, [i \in 1..Len(v) |-> Get(d, v[i], v[i])])

\* The loop over cov_names from its k-th element, cov_latexdict being
\* acc so far.
RECURSIVE CovLoop(_, _, _, _)
CovLoop(d, names, k, acc) ==
    IF k > Len(names) THEN Returned(acc)
    ELSE LET checked == CheckCovariate(d, names, names[k])
         IN  IF checked.raised THEN checked
             ELSE CovLoop(d, names, k + 1,
                          DictSet(acc, names[k], clean_cov_name(d, names[k])))

generate_covariate_latexdict(d, names) == CovLoop(d, names, 1, <<>>)

\* Display strings.
Alpha == <<"A", "l", "p", "h", "a">>
Beta == <<"B", "e", "t", "a">>

Gamma == <<"G", "a", "m", "m", "a">>

\* The dicts of the model: A and B are keys or not, in either order, and C
\* is a key only together with both, first or last.
LatexDicts ==
    {<<>>, <<Item(VarA, Alpha)>>, <<Item(VarB, Beta)>>,
     <<Item(VarA, Alpha), Item(VarB, Beta)>>,
     <<Item(VarB, Beta), Item(VarA, Alpha)>>,
     <<Item(VarA, Alpha), Item(VarB, Beta), Item(VarC, Gamma)>>,
     <<Item(VarC, Gamma), Item(VarB, Beta), Item(VarA, Alpha)>>}

\* The covariate names of the model.
CovPool ==
    {VarA, VarB, VarC, Term(<<VarA, VarB>>), Term(<<VarB, VarA>>),
     Term(<<VarB, VarC>>), Term(<<VarA, VarA>>)}

Permutations3 ==
    {t \in [1..3 -> VarPool] : Range(t) = VarPool}

\* A three-way interaction with the three variables and its three pairs.
ThreeWayLists ==
    LET lower(t) == <<VarA, VarB, VarC>>
                     \o [k \in 1..3 |-> Term(Omit(t, k - 1))]
    IN  {lower(t) \o <<Term(t)>> : t \in Permutations3}
            \cup {<<Term(t)>> \o lower(t) : t \in Permutations3}

InitCov ==
    /\ latexdict \in LatexDicts
    /\ cov_names \in SeqsUpTo(CovPool, MaxCov) \cup ThreeWayLists
    /\ pc = "start"
    /\ calls = 0
    /\ result = Unused
    /\ filename = Unused
    /\ vars_in_interaction = Unused /\ stack = Unused
    /\ stargazer = Unused /\ args = Unused /\ locals = Unused /\ ax = Unused
    /\ log = Unused /\ files = Unused

GenerateCovariateLatexdict ==
    /\ pc = "start"
    /\ result' = generate_covariate_latexdict(latexdict, cov_names)
    /\ pc' = "done"
    /\ UNCHANGED <<calls, filename, vars_in_interaction, stack, latexdict,
                   cov_names, stargazer, args, locals, ax, log, files>>

NextCov == GenerateCovariateLatexdict

SpecCov == InitCov /\ [][NextCov]_vars

\* Claims about generate_covariate_latexdict

IsInteraction(name) == Len(Split(name, ":")) > 1

\* Some lower-order term of the interaction is not in cov_names.
Incomplete(name) ==
    /\ IsInteraction(name)
    /\ \E t \in Range(generate_lower_order_interactions(Split(name, ":"))) :
          t \notin Range(cov_names)

IsKey(var) == \E i \in 1..Len(latexdict) : latexdict[i].key = var

KeyPosition(var) == CHOOSE i \in 1..Len(latexdict) : latexdict[i].key = var

\* The variables that are keys of latexdict come in the reverse of its key
\* order, and no variable that is not a key comes before one that is.
InReverseKeyOrder(v) ==
    \A i, j \in 1..Len(v) :
        i < j =>
            /\ IsKey(v[j]) => IsKey(v[i])
            /\ (IsKey(v[i]) /\ IsKey(v[j])) => KeyPosition(v[i]) >= KeyPosition(v[j])

Misordered(name) ==
    IsInteraction(name) /\ ~Incomplete(name) /\ ~InReverseKeyOrder(Split(name, ":"))

\* The variables' display strings joined by ' $\times$ ', a variable that is
\* not a key keeping its name.
Display(v) ==
    Join(Times, [i \in 1..Len(v) |->
                    IF IsKey(v[i]) THEN latexdict[KeyPosition(v[i])].value ELSE v[i]])

AlphaBeta == <<Item(VarA, Alpha), Item(VarB, Beta)>>

\* C1: with latexdict {"A": "Alpha", "B": "Beta"} and cov_names
\* ["A", "B", "A:B"] the call returns, and sends "A:B" to
\* "Alpha $\times$ Beta", "A" to "Alpha" and "B" to "Beta".
C1_Claim ==
    (/\ pc = "done"
     /\ latexdict = AlphaBeta
     /\ cov_names = <<VarA, VarB, Term(<<VarA, VarB>>)>>) =>
        /\ ~result.raised
        /\ Get(result.value, Term(<<VarA, VarB>>), <<>>) = Alpha \o Times \o Beta
        /\ Get(result.value, VarA, <<>>) = Alpha
        /\ Get(result.value, VarB, <<>>) = Beta

\* C2: with latexdict keys [A, B] and cov_names made of "A", "B" and "B:A",
\* the call raises the order assertion naming "B:A".
C2_Claim ==
    (/\ pc = "done"
     /\ Keys(latexdict) = <<VarA, VarB>>
     /\ Len(cov_names) = 3
     /\ Range(cov_names) = {VarA, VarB, Term(<<VarB, VarA>>)}) =>
        /\ result.raised
        /\ result.check = "order"
        /\ result.cov_name = Term(<<VarB, VarA>>)

FirstWhere(P(_)) ==
    CHOOSE k \in 1..Len(cov_names) :
        P(cov_names[k]) /\ \A j \in 1..(k - 1) : ~P(cov_names[j])

\* C4 as stated: if some interaction term of cov_names lacks a lower-order
\* term, the call raises the missing-lower-order-interaction failure.
C4_Original ==
    (pc = "done" /\ \E k \in 1..Len(cov_names) : Incomplete(cov_names[k])) =>
        result.raised /\ result.check = "missing"

\* C4 as amended: if some interaction term of cov_names lacks a lower-order
\* term, the call raises and returns no mapping.  The terms are validated in
\* list order and each term's missing-interaction check comes before its
\* order check: the failure is the missing-interaction failure of the first
\* incomplete term, unless a complete but mis-ordered term comes earlier in
\* cov_names, and then it is the order failure of the first such term.
C4_Amended ==
    (pc = "done" /\ \E k \in 1..Len(cov_names) : Incomplete(cov_names[k])) =>
        LET k == FirstWhere(Incomplete)
        IN  /\ result.raised
            /\ IF \E j \in 1..(k - 1) : Misordered(cov_names[j])
               THEN /\ result.check = "order"
                    /\ result.cov_name = cov_names[FirstWhere(Misordered)]
               ELSE /\ result.check = "missing"
                    /\ result.cov_name = cov_names[k]

\* The call raised the missing-interaction failure on a term that is both
\* incomplete and in the wrong order.
C4_Witness ==
    /\ pc = "done"
    /\ result.raised
    /\ result.check = "missing"
    /\ ~InReverseKeyOrder(Split(result.cov_name, ":"))
    /\ \E i, j \in 1..Len(Split(result.cov_name, ":")) :
          i # j /\ IsKey(Split(result.cov_name, ":")[i])
                /\ IsKey(Split(result.cov_name, ":")[j])

---------------------------------------------------------------------------
\* savefig

\* Filenames the export routines are called with.
SampleFilenames ==
    {<<"M", "y", " ", "P", "l", "o", "t", "/", "V", "2", "!", "!">>,
     <<"F", "i", "g", " ", "1">>,
     <<"a", "/", "b">>,
     <<"_", "_", "x">>,
     <<"U+00C9", "t", "U+00E9">>}

figurepath == <<"f", "i", "g", "s", "/">>

NoTitlePdf == <<"_", "n", "o", "t", "i", "t", "l", "e", ".", "p", "d", "f">>
Pdf == <<".", "p", "d", "f">>
Png == <<".", "p", "n", "g">>

\* An axes object: whether it has the attributes title and suptitle, and
\* whether the title it shows (its own, or failing that the figure's) is
\* visible.
AxesObjects ==
    [has_title : BOOLEAN, has_suptitle : BOOLEAN, visible : {TRUE}]

\* hasattr(ax, name)
HasAttr(obj, name) ==
    CASE name = "title" -> obj.has_title
      [] name = "suptitle" -> obj.has_suptitle

AttributeError(name) ==
    [raised |-> TRUE, exception |-> "AttributeError", attribute |-> name]

None == [raised |-> FALSE]

\* plt.savefig(name, ...): the figure is written as it shows now.
SavedFigure(name) == [name |-> name, visible |-> ax.visible]

InitFig ==
    /\ ax \in AxesObjects
    /\ filename \in SampleFilenames
    /\ pc = "idle"
    /\ calls = 0
    /\ result = Unused
    /\ locals = Unused
    /\ log = <<>>
    /\ files = <<>>
    /\ vars_in_interaction = Unused /\ stack = Unused
    /\ latexdict = Unused /\ cov_names = Unused
    /\ stargazer = Unused /\ args = Unused

FigUnchanged ==
    UNCHANGED <<filename, vars_in_interaction, stack, latexdict, cov_names,
                stargazer, args>>

\* The call and "filename = clean_filename(filename)".
SavefigCall ==
    /\ pc \in {"idle", "returned", "raised"}
    /\ calls < MaxCalls
    /\ calls' = calls + 1
    /\ locals' = [filename |-> clean_filename(filename)]
    /\ result' = Unused
    /\ log' = <<>>
    /\ files' = <<>>
    /\ pc' = "branch"
    /\ UNCHANGED ax
    /\ FigUnchanged

\* "if hasattr(ax, 'title'):" and the hiding of the title.
SavefigHideTitle ==
    /\ pc = "branch"
    /\ HasAttr(ax, "title")
    /\ ax' = [ax EXCEPT !.visible = FALSE]
    /\ pc' = "save_notitle"
    /\ UNCHANGED <<calls, result, locals, log, files>>
    /\ FigUnchanged

\* "elif hasattr(ax, 'suptitle'):" and its "plt.setp(ax.title, ...)": the
\* branch is taken when ax has no attribute title, so reading ax.title
\* raises AttributeError.
SavefigHideSuptitle ==
    /\ pc = "branch"
    /\ ~HasAttr(ax, "title")
    /\ HasAttr(ax, "suptitle")
    /\ result' = AttributeError("title")
    /\ pc' = "raised"
    /\ UNCHANGED <<calls, locals, ax, log, files>>
    /\ FigUnchanged

\* Neither branch is taken.
SavefigNoTitle ==
    /\ pc = "branch"
    /\ ~HasAttr(ax, "title")
    /\ ~HasAttr(ax, "suptitle")
    /\ pc' = "save_pdf"
    /\ UNCHANGED <<calls, result, locals, ax, log, files>>
    /\ FigUnchanged

SavefigSaveNoTitle ==
    /\ pc = "save_notitle"
    /\ files' = Append(files, SavedFigure(figurepath \o locals.filename \o NoTitlePdf))
    /\ pc' = "show_title"
    /\ UNCHANGED <<calls, result, locals, ax, log>>
    /\ FigUnchanged

\* "plt.setp(ax.title, visible=True)"
SavefigShowTitle ==
    /\ pc = "show_title"
    /\ ax' = [ax EXCEPT !.visible = TRUE]
    /\ pc' = "save_pdf"
    /\ UNCHANGED <<calls, result, locals, log, files>>
    /\ FigUnchanged

SavefigSavePdf ==
    /\ pc = "save_pdf"
    /\ files' = Append(files, SavedFigure(figurepath \o locals.filename \o Pdf))
    /\ pc' = "save_png"
    /\ UNCHANGED <<calls, result, locals, ax, log>>
    /\ FigUnchanged

SavefigSavePng ==
    /\ pc = "save_png"
    /\ files' = Append(files, SavedFigure(figurepath \o locals.filename \o Png))
    /\ pc' = "show"
    /\ UNCHANGED <<calls, result, locals, ax, log>>
    /\ FigUnchanged

\* plt.show(), the print, and the return.
SavefigShow ==
    /\ pc = "show"
    /\ log' = log \o <<"plt.show", "print">>
    /\ result' = None
    /\ pc' = "returned"
    /\ UNCHANGED <<calls, locals, ax, files>>
    /\ FigUnchanged

NextFig ==
    \/ SavefigCall
    \/ SavefigHideTitle
    \/ SavefigHideSuptitle
    \/ SavefigNoTitle
    \/ SavefigSaveNoTitle
    \/ SavefigShowTitle
    \/ SavefigSavePdf
    \/ SavefigSavePng
    \/ SavefigShow

SpecFig == InitFig /\ [][NextFig]_vars

\* Claims about savefig

TitledFiles ==
    <<[name |-> figurepath \o locals.filename \o Pdf, visible |-> TRUE],
      [name |-> figurepath \o locals.filename \o Png, visible |-> TRUE]>>

\* C7: whatever attributes the axes has, the call completes having saved the
\* titled PDF and then the titled PNG; and when the axes has a title or,
\* failing that, a suptitle, the no-title PDF was saved first, with the title
\* hidden, and the title was visible again for the other two.
C7_Claim ==
    pc \in {"returned", "raised"} =>
        /\ pc = "returned"
        /\ files =
              IF HasAttr(ax, "title") \/ HasAttr(ax, "suptitle")
              THEN <<[name |-> figurepath \o locals.filename \o NoTitlePdf,
                      visible |-> FALSE]>> \o TitledFiles
              ELSE TitledFiles

---------------------------------------------------------------------------
\* savereg

\* Rendered LaTeX is a sequence of pieces: a command, a number, a note.
RECURSIVE ReplaceAll(_, _, _)
ReplaceAll(s, old, new) ==
    IF Len(s) < Len(old) THEN s
    ELSE IF SubSeq(s, 1, Len(old)) = old
    THEN new \o ReplaceAll(SubSeq(s, Len(old) + 1, Len(s)), old, new)
    ELSE <<Head(s)>> \o ReplaceAll(Tail(s), old, new)

\* s.partition(sep): what is before the first sep, sep, and what is after.
RECURSIVE PartitionFrom(_, _, _)
PartitionFrom(before, s, sep) ==
    IF Len(s) < Len(sep) THEN <<before \o s, <<>>, <<>>>>
    ELSE IF SubSeq(s, 1, Len(sep)) = sep
    THEN <<before, sep, SubSeq(s, Len(sep) + 1, Len(s))>>
    ELSE PartitionFrom(Append(before, Head(s)), Tail(s), sep)

Partition(s, sep) == PartitionFrom(<<>>, s, sep)

\* str(n) for n < 10
Str(n) == <<"0", "1", "2", "3", "4", "5", "6", "7", "8", "9">>[n + 1]

Cline(a, b) == <<"\\cline{", Str(a), "-", Str(b), "}">>

BeginTabular == <<"\\begin{tabular}">>
EndTabular == <<"\\end{tabular}">>

McFaddenNote == "$R^2$ reports McFadden's pseudo-$R^2$."
OtherNote == "Standard errors in parentheses."

\* Fitted models: a logit model has the attribute prsquasecond, an OLS model
\* has not.
Logit == [family |-> "logit", prsquasecond |-> "0.25"]
OLS == [family |-> "ols", rsquared |-> "0.31"]

\* hasattr(model, 'prsquasecond')
HasPseudoR2(model) == "prsquasecond" \in DOMAIN model

\* The table object as Stargazer(models) builds it.
Stargazer(models, names, notes) ==
    [models |-> models,
     num_models |-> Len(models),
     model_data |-> [i \in 1..Len(models) |->
                        [r2 |-> IF HasPseudoR2(models[i]) THEN "nan"
                                ELSE models[i].rsquared]],
     cov_names |-> names,
     cov_map |-> <<>>,
     custom_notes |-> notes,
     show_options |-> TRUE]

\* stargazer.add_custom_notes(notes)
add_custom_notes(sg, notes) == [sg EXCEPT !.custom_notes = @ \o notes]

\* stargazer.render_latex()
render_latex(sg) ==
    <<"\\begin{table}">> \o BeginTabular
        \o Cline(sg.num_models, sg.num_models + 1)
        \o [i \in 1..Len(sg.model_data) |-> sg.model_data[i].r2]
        \o sg.custom_notes
        \o EndTabular \o <<"\\end{table}">>

\* The post-processing of the rendered table.
PostProcess(latex, num_models, adjustwidth) ==
    LET l1 == ReplaceAll(latex, <<"nan">>, <<>>)
        l2 == ReplaceAll(l1, Cline(num_models, num_models + 1),
                         Cline(2, num_models + 1))
    IN  IF adjustwidth
        THEN ReplaceAll(
                 ReplaceAll(l2, BeginTabular,
                            <<"\\begin{adjustbox}{width=\\linewidth}">>
                                \o BeginTabular),
                 EndTabular, EndTabular \o <<"\\end{adjustbox}">>)
        ELSE l2

\* The tabular environment alone.
latex_table(latex) ==
    LET p == Partition(latex, BeginTabular)
        q == Partition(p[2] \o p[3], EndTabular)
    IN  q[1] \o q[2]

\* The loop that overwrites R2, from its k-th model on.
RECURSIVE PseudoR2Loop(_, _)
PseudoR2Loop(sg, k) ==
    IF k > Len(sg.models) \/ k > Len(sg.model_data)
    THEN [stargazer |-> sg, raised |-> FALSE]
    ELSE IF ~HasPseudoR2(sg.models[k])
    THEN [stargazer |-> sg, raised |-> TRUE]
    ELSE LET sg1 == [sg EXCEPT !.model_data[k].r2 = sg.models[k].prsquasecond]
             sg2 == IF McFaddenNote \notin Range(sg1.custom_notes)
                    THEN add_custom_notes(sg1, sg1.custom_notes \o <<McFaddenNote>>)
                    ELSE sg1
         IN  PseudoR2Loop(sg2, k + 1)

tablepath == <<"t", "a", "b", "/">>
Tex == <<".", "t", "e", "x">>
TabularTex == <<"_", "t", "a", "b", "u", "l", "a", "r", ".", "t", "e", "x">>

OSError == [raised |-> TRUE, exception |-> "OSError"]

\* The tables of the model: one to MaxModels models of either kind; the
\* covariates of y ~ A*B with the interaction named either way, or the
\* interaction alone; and notes with or without the pseudo-R2 note.
ModelLists == SeqsUpTo({Logit, OLS}, MaxModels) \ {<<>>}

RegCovNames ==
    {<<VarA, VarB, Term(<<VarB, VarA>>)>>,
     <<VarA, VarB, Term(<<VarA, VarB>>)>>,
     <<Term(<<VarA, VarB>>)>>}

InitialNotes == {<<>>, <<OtherNote>>, <<OtherNote, McFaddenNote>>}

InitReg ==
    /\ stargazer \in {Stargazer(m, n, c) :
                         m \in ModelLists, n \in RegCovNames, c \in InitialNotes}
    /\ filename \in {<<"F", "i", "g", " ", "1">>, <<"a", "/", "b">>}
    /\ latexdict \in {<<>>, <<Item(VarA, Alpha), Item(VarB, Beta)>>}
    /\ args \in [adjustwidth : {"auto", "True", "False"}, debug : BOOLEAN]
    /\ pc = "idle"
    /\ calls = 0
    /\ result = Unused
    /\ locals = Unused
    /\ log = <<>>
    /\ files = <<>>
    /\ vars_in_interaction = Unused /\ stack = Unused
    /\ cov_names = Unused /\ ax = Unused

RegUnchanged ==
    UNCHANGED <<filename, vars_in_interaction, stack, latexdict, cov_names,
                args, ax>>

\* The call, the cleaning of the filename, the width policy and the display
\* options.
SaveregCall ==
    /\ pc \in {"idle", "returned", "raised"}
    /\ calls < MaxCalls
    /\ calls' = calls + 1
    /\ locals' = [filename |-> clean_filename(filename),
                  adjustwidth |-> IF args.adjustwidth = "auto"
                                  THEN Len(stargazer.models) > 4
                                  ELSE args.adjustwidth = "True",
                  latex |-> <<>>]
    /\ stargazer' = [stargazer EXCEPT !.show_options = FALSE]
    /\ log' = <<"show_degrees_of_freedom", "show_model_numbers", "append_notes">>
    /\ files' = <<>>
    /\ result' = Unused
    /\ pc' = "rename"
    /\ RegUnchanged

\* A renaming that hands the table the names before they are validated.
SaveregRenameUnvalidated ==
    /\ pc = "rename"
    /\ LET r == generate_covariate_latexdict(latexdict, stargazer.cov_names)
       IN  /\ log' = Append(log, "rename_covariates")
           /\ IF r.raised
              THEN /\ result' = r
                   /\ pc' = "raised"
                   /\ UNCHANGED stargazer
              ELSE /\ stargazer' = [stargazer EXCEPT !.cov_map = r.value]
                   /\ pc' = "pseudo_r2"
                   /\ UNCHANGED result
    /\ UNCHANGED <<calls, locals, files>>
    /\ RegUnchanged

\* "cov_latexdict = generate_covariate_latexdict(...)" and
\* "stargazer.rename_covariates(cov_latexdict)".
SaveregRename ==
    /\ pc = "rename"
    /\ LET r == generate_covariate_latexdict(latexdict, stargazer.cov_names)
       IN  IF r.raised
           THEN /\ result' = r
                /\ pc' = "raised"
                /\ UNCHANGED <<stargazer, log>>
           ELSE /\ stargazer' = [stargazer EXCEPT !.cov_map = r.value]
                /\ log' = Append(log, "rename_covariates")
                /\ pc' = "pseudo_r2"
                /\ UNCHANGED result
    /\ UNCHANGED <<calls, locals, files>>
    /\ RegUnchanged

\* "if any([hasattr(model, 'prsquasecond') ...]):" and its loop.  Reading
\* model.prsquasecond of a model without it raises AttributeError, what the
\* loop did before stays done.
SaveregPseudoR2 ==
    /\ pc = "pseudo_r2"
    /\ IF \E i \in 1..Len(stargazer.models) : HasPseudoR2(stargazer.models[i])
       THEN LET r == PseudoR2Loop(stargazer, 1)
            IN  /\ stargazer' = r.stargazer
                /\ IF r.raised
                   THEN result' = AttributeError("prsquasecond") /\ pc' = "raised"
                   ELSE pc' = "render" /\ UNCHANGED result
       ELSE pc' = "render" /\ UNCHANGED <<stargazer, result>>
    /\ UNCHANGED <<calls, locals, log, files>>
    /\ RegUnchanged

SaveregRender ==
    /\ pc = "render"
    /\ locals' = [locals EXCEPT !.latex =
                     PostProcess(render_latex(stargazer), stargazer.num_models,
                                 locals.adjustwidth)]
    /\ log' = Append(log, "render_latex")
    /\ pc' = "write_tex"
    /\ UNCHANGED <<calls, result, stargazer, files>>
    /\ RegUnchanged

\* The full table is written; the path is printed when debug is set.
SaveregWriteTex ==
    /\ pc = "write_tex"
    /\ files' = Append(files, [name |-> tablepath \o locals.filename \o Tex,
                               content |-> locals.latex])
    /\ log' = log \o <<"open_tex", "write_tex">>
                  \o (IF args.debug THEN <<"print">> ELSE <<>>)
    /\ pc' = "write_tabular"
    /\ UNCHANGED <<calls, result, locals, stargazer>>
    /\ RegUnchanged

\* open() fails: the error propagates.
SaveregWriteTexFails ==
    /\ pc = "write_tex"
    /\ result' = OSError
    /\ pc' = "raised"
    /\ UNCHANGED <<calls, locals, stargazer, log, files>>
    /\ RegUnchanged

\* The tabular part is written and the call returns.
SaveregWriteTabular ==
    /\ pc = "write_tabular"
    /\ files' = Append(files, [name |-> tablepath \o locals.filename \o TabularTex,
                               content |-> latex_table(locals.latex)])
    /\ log' = log \o <<"open_tabular", "write_tabular">>
    /\ result' = None
    /\ pc' = "returned"
    /\ UNCHANGED <<calls, locals, stargazer>>
    /\ RegUnchanged

SaveregWriteTabularFails ==
    /\ pc = "write_tabular"
    /\ result' = OSError
    /\ pc' = "raised"
    /\ UNCHANGED <<calls, locals, stargazer, log, files>>
    /\ RegUnchanged

NextReg ==
    \/ SaveregCall
    \/ SaveregRename
    \/ SaveregPseudoR2
    \/ SaveregRender
    \/ SaveregWriteTex
    \/ SaveregWriteTexFails
    \/ SaveregWriteTabular
    \/ SaveregWriteTabularFails

SpecReg == InitReg /\ [][NextReg]_vars

\* Claims about savereg

PseudoR2Done ==
    \/ pc \in {"render", "write_tex", "write_tabular", "returned"}
    \/ pc = "raised" /\ result.exception = "OSError"

\* C8: when at least one model exposes a pseudo-R2, whatever the other
\* models and the notes, and in every call on the table: the pseudo-R2 step
\* completes, the r2 shown for each model that exposes a pseudo-R2 is that
\* value, and the pseudo-R2 note is in the custom notes exactly once.
C8_Claim ==
    (\E i \in 1..Len(stargazer.models) : HasPseudoR2(stargazer.models[i])) =>
        /\ ~(pc = "raised" /\ result.exception = "AttributeError")
        /\ PseudoR2Done =>
              /\ \A i \in 1..Len(stargazer.models) :
                    HasPseudoR2(stargazer.models[i]) =>
                        stargazer.model_data[i].r2 = stargazer.models[i].prsquasecond
              /\ Count(stargazer.custom_notes, McFaddenNote) = 1

AfterValidation ==
    {"rename_covariates", "render_latex", "open_tex", "write_tex",
     "open_tabular", "write_tabular"}

Position(s, x) == CHOOSE i \in 1..Len(s) : s[i] = x

\* C10: a call whose covariate validation fails raises that failure with no
\* covariate renamed, no table rendered and no output file opened or
\* written; and a call that writes writes the full .tex file before the
\* _tabular.tex file.
C10_AbortBeforeEffects ==
    /\ (/\ calls > 0
        /\ pc # "rename"
        /\ generate_covariate_latexdict(latexdict, stargazer.cov_names).raised) =>
           /\ pc = "raised"
           /\ result = generate_covariate_latexdict(latexdict, stargazer.cov_names)
           /\ Range(log) \cap AfterValidation = {}
           /\ files = <<>>
    /\ Len(files) <= 2
    /\ Len(files) >= 1 => files[1].name = tablepath \o locals.filename \o Tex
    /\ Len(files) = 2 => files[2].name = tablepath \o locals.filename \o TabularTex
    /\ "open_tabular" \in Range(log) =>
          /\ "write_tex" \in Range(log)
          /\ Position(log, "write_tex") < Position(log, "open_tabular")

\* A second call on the table failed the order validation.
C10_Witness ==
    /\ pc = "raised"
    /\ calls = 2
    /\ result.exception = "AssertionError"
    /\ result.check = "order"

=============================================================================
